---- MODULE Spec2Model ----
(***************************************************************************)
(* Model of vocab_app.py: the Streamlit vocabulary trainer.                *)
(*                                                                         *)
(* A Python str is a sequence of one-character strings, so that strip(),   *)
(* lower() and sorted() are computed and not assumed.  Python's None in a  *)
(* str-valued slot is the sentinel None below.  A parsed JSON value is a   *)
(* record tagged by its type.                                              *)
(***************************************************************************)
EXTENDS Integers, Sequences, FiniteSets, TLC

VARIABLES
    api_key,                 \* os.getenv("OPENAI_API_KEY") of the process
    vocab_history,           \* st.session_state["vocab_history"]: normalized topic -> set of words
    phrasal_history,         \* st.session_state["phrasal_history"]: difficulty -> set of words
    last_vocab_items,        \* st.session_state["last_vocab_items"]
    last_vocab_topic,        \* st.session_state["last_vocab_topic"]
    last_vocab_difficulty,   \* st.session_state["last_vocab_difficulty"]
    last_phrasal_items,      \* st.session_state["last_phrasal_items"]
    last_phrasal_difficulty, \* st.session_state["last_phrasal_difficulty"]
    store,                   \* the rows of table vocab, in insertion order
    returned,                \* what the last direct call of a function returned
    csv_rows,                \* the data rows of vocab_export.csv
    prompt,                  \* the instruction sent to the model in the last step, or NoPrompt
    clicked,                 \* the button (or call) the last step served
    status                   \* what that step showed: st.error, st.success, an uncaught exception

vars == <<api_key, vocab_history, phrasal_history, last_vocab_items, last_vocab_topic,
          last_vocab_difficulty, last_phrasal_items, last_phrasal_difficulty, store,
          returned, csv_rows, prompt, clicked, status>>

-----------------------------------------------------------------------------
(* Bounds of the explored inputs *)

\* longest array the model's reply holds
MaxBatch == 2
\* rows the table holds in the session specification
MaxRows == 2
\* rows the table holds in the store specification
MaxStoreRows == 3
\* highest difficulty level the explored sliders are set to
MaxLevel == 2
\* largest LIMIT passed to the two queries when called directly
MaxLimit == 2
\* how far below and above the difficulty scale a direct call's arguments range
MaxOff == 1

(* Program constants *)

\* st.slider(..., 1, 5, 2): the difficulty scale
MIN_DIFFICULTY == 1
MAX_DIFFICULTY == 5
\* difficulty=None, and an integer slot of the session that is not set
NoLevel == 0
\* st.slider(min_value=5, ...) of the two generation pages and of the review page
MIN_ITEMS == 5
\* st.slider(min_value=20, ...) of the recent page
MIN_RECENT == 20
\* unique[:200]
MAX_FORBIDDEN == 200

-----------------------------------------------------------------------------
(* Python str *)

None == <<"None">>

IsSpace(c) == c = " "

RECURSIVE lstrip(_)
lstrip(s) == IF s # <<>> /\ IsSpace(Head(s)) THEN lstrip(Tail(s)) ELSE s

RECURSIVE rstrip(_)
rstrip(s) == IF s # <<>> /\ IsSpace(s[Len(s)]) THEN rstrip(SubSeq(s, 1, Len(s) - 1)) ELSE s

\* str.strip()
strip(s) == rstrip(lstrip(s))

lower_char(c) ==
    CASE c = "A" -> "a"
      [] c = "B" -> "b"
      [] c = "D" -> "d"
      [] OTHER -> c

\* str.lower()
RECURSIVE lower(_)
lower(s) == IF s = <<>> THEN <<>> ELSE <<lower_char(Head(s))>> \o lower(Tail(s))

\* the code point of a character
ord(c) ==
    CASE c = " " -> 32
      [] c = "A" -> 65
      [] c = "B" -> 66
      [] c = "D" -> 68
      [] c = "a" -> 97
      [] c = "b" -> 98
      [] c = "d" -> 100
      [] c = "e" -> 101
      [] c = "m" -> 109
      [] OTHER -> 120

\* s < t on str: lexicographic by code point
RECURSIVE str_lt(_, _)
str_lt(s, t) ==
    IF t = <<>> THEN FALSE
    ELSE IF s = <<>> THEN TRUE
    ELSE IF ord(Head(s)) < ord(Head(t)) THEN TRUE
    ELSE IF ord(Head(s)) > ord(Head(t)) THEN FALSE
    ELSE str_lt(Tail(s), Tail(t))

\* sorted(S) of a set of str
RECURSIVE sorted(_)
sorted(S) ==
    IF S = {} THEN <<>>
    ELSE LET m == CHOOSE x \in S : \A y \in S \ {x} : str_lt(x, y)
         IN  <<m>> \o sorted(S \ {m})

\* seq[:n]
Take(seq, n) == SubSeq(seq, 1, IF Len(seq) < n THEN Len(seq) ELSE n)

Range(seq) == {seq[i] : i \in 1..Len(seq)}

-----------------------------------------------------------------------------
(* Parsed JSON values and the Python operations the pages apply to them *)

JNull == [type |-> "null"]
JArray(es) == [type |-> "array", elems |-> es]
JObject(f) == [type |-> "object", fields |-> f]
JString(s) == [type |-> "string", chars |-> s]

ItemKeys == {"word", "meaning_en", "meaning_zh", "example"}

\* the text of a key, and the order a dict yields its keys in
KeyText(k) ==
    CASE k = "word" -> <<"w", "o", "r", "d">>
      [] k = "meaning_en" -> <<"m", "e", "a", "n", "i", "n", "g", "_", "e", "n">>
      [] k = "meaning_zh" -> <<"m", "e", "a", "n", "i", "n", "g", "_", "z", "h">>
      [] OTHER -> <<"e", "x", "a", "m", "p", "l", "e">>
KeyOrder == <<"word", "meaning_en", "meaning_zh", "example">>

\* bool(v)
truthy(v) ==
    CASE v.type = "null" -> FALSE
      [] v.type = "array" -> v.elems # <<>>
      [] v.type = "object" -> DOMAIN v.fields # {}
      [] OTHER -> v.chars # <<>>

\* whether "for it in v" can start: None is not iterable
iterable(v) == v.type # "null"

\* the sequence "for it in v" runs over: a list's elements, a dict's keys, a str's characters
py_iter(v) ==
    CASE v.type = "array" -> v.elems
      [] v.type = "object" ->
            LET present == SelectSeq(KeyOrder, LAMBDA k : k \in DOMAIN v.fields)
            IN  [i \in 1..Len(present) |-> JString(KeyText(present[i]))]
      [] v.type = "string" -> [i \in 1..Len(v.chars) |-> JString(<<v.chars[i]>>)]
      [] OTHER -> <<>>

\* whether it.get(...) exists: only a dict has .get
has_get(it) == it.type = "object"

\* it.get(k)
dict_get(it, k) == IF k \in DOMAIN it.fields THEN it.fields[k] ELSE None

\* whether it['word'], it['meaning_en'], it['meaning_zh'], it['example'] all evaluate
displayable(it) == it.type = "object" /\ ItemKeys \subseteq DOMAIN it.fields

-----------------------------------------------------------------------------
(* The table vocab *)

PHRASAL_TOPIC == <<"p", "h", "r", "a", "s", "a", "l", "_", "v", "e", "r", "b", "s">>

\* f"daily_vocab_{difficulty}", f"phrasal_{difficulty}", and tag=None
Tag(prefix, difficulty) == [prefix |-> prefix, level |-> difficulty]
NoTag == [prefix |-> "None"]

SetMax(S) == CHOOSE x \in S : \A y \in S : y <= x

\* AUTOINCREMENT: one more than the largest id the table has held (no row is ever deleted)
next_id(table) == IF table = <<>> THEN 1 ELSE SetMax({table[i].id : i \in 1..Len(table)}) + 1

\* a variant of insert_row that replaces the rows of the table by the new one
insert_row_replacing(table, it, topic, tag, difficulty) ==
    <<[id |-> next_id(table),
       word |-> dict_get(it, "word"),
       meaning_en |-> dict_get(it, "meaning_en"),
       meaning_zh |-> dict_get(it, "meaning_zh"),
       example |-> dict_get(it, "example"),
       topic |-> topic,
       tag |-> tag,
       difficulty |-> difficulty]>>

\* one INSERT INTO vocab (...) VALUES (...)
insert_row(table, it, topic, tag, difficulty) ==
    Append(table, [id |-> next_id(table),
                   word |-> dict_get(it, "word"),
                   meaning_en |-> dict_get(it, "meaning_en"),
                   meaning_zh |-> dict_get(it, "meaning_zh"),
                   example |-> dict_get(it, "example"),
                   topic |-> topic,
                   tag |-> tag,
                   difficulty |-> difficulty])

\* whether the loop of insert_vocab_items raises before conn.commit(): an element without
\* .get (AttributeError), or a word of None against word TEXT NOT NULL (IntegrityError)
insert_raises(items) ==
    \E i \in 1..Len(items) : ~has_get(items[i]) \/ dict_get(items[i], "word") = None

RECURSIVE insert_loop(_, _, _, _, _)
insert_loop(table, items, topic, tag, difficulty) ==
    IF items = <<>> THEN table
    ELSE insert_loop(insert_row(table, Head(items), topic, tag, difficulty),
                     Tail(items), topic, tag, difficulty)

\* insert_vocab_items: the table afterwards. Nothing is committed when the loop raises.
insert_vocab_items(table, items, topic, tag, difficulty) ==
    IF items = <<>> \/ insert_raises(items) THEN table
    ELSE insert_loop(table, items, topic, tag, difficulty)

\* LIMIT ?  (a negative LIMIT is no limit)
sql_limit(seq, n) == IF n < 0 THEN seq ELSE Take(seq, n)

\* a variant of order_by_id_desc that yields the rows oldest first
RECURSIVE order_by_id_asc(_)
order_by_id_asc(S) ==
    IF S = {} THEN <<>>
    ELSE LET r == CHOOSE x \in S : \A y \in S : x.id <= y.id
         IN  <<r>> \o order_by_id_asc(S \ {r})

\* ORDER BY id DESC
RECURSIVE order_by_id_desc(_)
order_by_id_desc(S) ==
    IF S = {} THEN <<>>
    ELSE LET r == CHOOSE x \in S : \A y \in S : y.id <= x.id
         IN  <<r>> \o order_by_id_desc(S \ {r})

\* ORDER BY id
RECURSIVE order_by_id(_)
order_by_id(S) ==
    IF S = {} THEN <<>>
    ELSE LET r == CHOOSE x \in S : \A y \in S : x.id <= y.id
         IN  <<r>> \o order_by_id(S \ {r})

\* ORDER BY RANDOM(): every order of the selected rows
order_by_random(S) ==
    {p \in [1..Cardinality(S) -> S] : \A i, j \in 1..Cardinality(S) : p[i] = p[j] => i = j}

\* a variant of where_difficulty that selects every row
where_difficulty_any(S, difficulty) == S

\* WHERE difficulty = ?
where_difficulty(S, difficulty) == {r \in S : r.difficulty = difficulty}

\* get_random_items: the results the query can return
get_random_items(table, limit, difficulty) ==
    LET selected == IF difficulty = NoLevel THEN Range(table)
                    ELSE where_difficulty(Range(table), difficulty)
    IN  {sql_limit(p, limit) : p \in order_by_random(selected)}

\* get_recent_items
get_recent_items(table, limit) == sql_limit(order_by_id_desc(Range(table)), limit)

\* export_to_csv: the data rows written, without the id column
export_to_csv(table) ==
    LET ordered == order_by_id(Range(table))
    IN  [i \in 1..Len(ordered) |->
            [word |-> ordered[i].word, meaning_en |-> ordered[i].meaning_en,
             meaning_zh |-> ordered[i].meaning_zh, example |-> ordered[i].example,
             topic |-> ordered[i].topic, tag |-> ordered[i].tag,
             difficulty |-> ordered[i].difficulty]]

-----------------------------------------------------------------------------
(* The request to the model *)

NoPrompt == [mode |-> "none"]

\* no direct call has returned
NoCall == [call |-> "none"]

\* lines 170-180: the words the forbidden block lists
forbidden_block(forbidden_words) ==
    LET unique == sorted({strip(forbidden_words[i]) :
                            i \in {j \in 1..Len(forbidden_words) : forbidden_words[j] # <<>>}})
    IN  Take(unique, MAX_FORBIDDEN)

\* json.loads(content) of a reply text: the value, or a raised JSONDecodeError
json_loads(content) ==
    IF content.json THEN [raised |-> FALSE, value |-> content.value]
    ELSE [raised |-> TRUE, value |-> JNull]

\* client.chat.completions.create(...) followed by json.loads: the call raises when the
\* API does or when the text is not JSON
complete(reply) ==
    IF reply.kind = "api_error" THEN [raised |-> TRUE, value |-> JNull]
    ELSE json_loads(reply)

\* call_gpt_for_vocab: the instruction sent, and the value returned unless raised.
\* The random seed of the instruction is left out of the record.
call_gpt_for_vocab(topic, num_items, difficulty, forbidden_words, reply) ==
    [prompt |-> [mode |-> "vocab", topic |-> topic, num_items |-> num_items,
                 difficulty |-> difficulty, forbidden |-> forbidden_block(forbidden_words)],
     raised |-> complete(reply).raised,
     value |-> complete(reply).value]

\* call_gpt_for_phrasal_verbs
call_gpt_for_phrasal_verbs(num_items, difficulty, forbidden_words, reply) ==
    [prompt |-> [mode |-> "phrasal", topic |-> None, num_items |-> num_items,
                 difficulty |-> difficulty, forbidden |-> forbidden_block(forbidden_words)],
     raised |-> complete(reply).raised,
     value |-> complete(reply).value]

-----------------------------------------------------------------------------
(* The history of a dedup context *)

\* a variant of normalize_topic that leaves the case of the topic alone
normalize_topic_keeps_case(topic) == strip(topic)

\* topic.strip().lower()
normalize_topic(topic) == lower(strip(topic))

\* a variant of normalize_word that leaves the case of the word alone
normalize_word_keeps_case(it) ==
    LET g == dict_get(it, "word")
    IN  strip(IF g = None THEN <<>> ELSE g)

\* (it.get("word") or "").strip().lower()
normalize_word(it) ==
    LET g == dict_get(it, "word")
    IN  lower(strip(IF g = None THEN <<>> ELSE g))

\* a variant of history_get that finds no set for any key
history_get_nothing(history, key) == {}

\* history.get(key, set())
history_get(history, key) == IF key \in DOMAIN history THEN history[key] ELSE {}

\* history[key] = hist_set
history_put(history, key, hist_set) ==
    [k \in DOMAIN history \cup {key} |-> IF k = key THEN hist_set ELSE history[k]]

\* sorted(history.get(key, set()))
forbidden_list(history, key) == sorted(history_get(history, key))

\* the loop "for it in items": the set afterwards, and whether an element without .get
\* ended it with an AttributeError
RECURSIVE absorb(_, _)
absorb(its, hist_set) ==
    IF its = <<>> THEN [set |-> hist_set, raised |-> FALSE]
    ELSE IF ~has_get(Head(its)) THEN [set |-> hist_set, raised |-> TRUE]
    ELSE LET w == normalize_word(Head(its))
         IN  absorb(Tail(its), IF w # <<>> THEN hist_set \cup {w} ELSE hist_set)

\* lines 321-327 and 397-403. hist_set is the set object the history already holds for
\* the key, when it holds one: what the loop added before raising stays in the history.
\* A set made by the default of .get is stored only by the assignment after the loop.
update_history(history, key, items) ==
    LET hist_set == history_get(history, key)
        r == IF iterable(items) THEN absorb(py_iter(items), hist_set)
             ELSE [set |-> hist_set, raised |-> TRUE]
    IN  IF r.raised
        THEN [history |-> IF key \in DOMAIN history THEN history_put(history, key, r.set)
                          ELSE history,
              raised |-> TRUE]
        ELSE [history |-> history_put(history, key, r.set), raised |-> FALSE]

-----------------------------------------------------------------------------
(* The inputs explored: what the user types and what the model replies *)

\* the topics typed: the first two differ only in case and surrounding whitespace
Topics == {<<"d">>, <<" ", "D">>, <<"e">>}

\* the one topic typed and the one level set in the whole-session specification
SessionTopics == {<<" ", "D">>}
SessionLevels == {MIN_DIFFICULTY}

\* the difficulty levels the sliders are set to
Levels == MIN_DIFFICULTY..MaxLevel

Meaning == <<"m">>
FullItem(w) == JObject([word |-> w, meaning_en |-> Meaning, meaning_zh |-> Meaning,
                        example |-> Meaning])
WordOnlyItem(w) == JObject([word |-> w])

\* elements of a replied array: a full object whose word needs strip() and lower(), an
\* object with word alone, an object whose word is blank, a bare string
ItemA == FullItem(<<"A", " ">>)
ItemB == WordOnlyItem(<<"b">>)
ItemBlank == WordOnlyItem(<<" ">>)
Bare == JString(<<"b">>)

SeqsUpTo(S, n) == UNION {[1..k -> S] : k \in 0..n}

Text(v) == [kind |-> "text", json |-> TRUE, value |-> v]

\* the two replies that make the call raise: the API fails, the text is not JSON
Failures == {[kind |-> "api_error"], [kind |-> "text", json |-> FALSE]}

\* replies of the whole-session specification: a failure, an array of two full objects,
\* an array of one object with a word alone, an array whose second element is a bare string
SessionReplies ==
    Failures \cup {Text(JArray(<<ItemA, ItemA>>)), Text(JArray(<<ItemB>>)),
                   Text(JArray(<<ItemA, Bare>>))}

\* replies of the generation specification: a failure, a well-formed array of two words,
\* an array whose second element is a bare string
GenerateReplies == Failures \cup {Text(JArray(<<ItemA, ItemB>>)), Text(JArray(<<ItemA, Bare>>))}

\* replies of the word specification: a failure, every array of up to MaxBatch of the
\* four elements, null, and an object that is not wrapped in an array
WordReplies ==
    Failures
        \cup {Text(JArray(es)) : es \in SeqsUpTo({ItemA, ItemB, ItemBlank, Bare}, MaxBatch)}
        \cup {Text(JNull), Text(ItemA)}

-----------------------------------------------------------------------------
(* The session *)

Init ==
    /\ api_key \in {None, <<>>, <<"k">>}
    /\ vocab_history = <<>>
    /\ phrasal_history = <<>>
    /\ last_vocab_items = JNull
    /\ last_vocab_topic = None
    /\ last_vocab_difficulty = NoLevel
    /\ last_phrasal_items = JNull
    /\ last_phrasal_difficulty = NoLevel
    /\ store = <<>>
    /\ returned = NoCall
    /\ csv_rows = <<>>
    /\ prompt = NoPrompt
    /\ clicked = "none"
    /\ status = "none"

\* a variant of key_missing that takes an empty key for a key
key_missing_none_only == api_key = None

\* not os.getenv("OPENAI_API_KEY")
key_missing == api_key = None \/ api_key = <<>>

\* page_generate_vocab, button "generate": lines 293-327
GenerateVocab(topic, num_items, difficulty, reply) ==
    LET normalized_topic == normalize_topic(topic)
        forbidden_words == forbidden_list(vocab_history, normalized_topic)
        call == call_gpt_for_vocab(topic, num_items, difficulty, forbidden_words, reply)
        merged == update_history(vocab_history, normalized_topic, call.value)
    IN  /\ clicked' = "generate_vocab"
        /\ UNCHANGED <<api_key, phrasal_history, last_phrasal_items, last_phrasal_difficulty,
                       store, returned, csv_rows>>
        /\ IF key_missing
           THEN /\ status' = "config_error"
                /\ prompt' = NoPrompt
                /\ UNCHANGED <<vocab_history, last_vocab_items, last_vocab_topic,
                               last_vocab_difficulty>>
           ELSE /\ prompt' = call.prompt
                /\ IF call.raised
                   THEN /\ status' = "gpt_error"
                        /\ UNCHANGED <<vocab_history, last_vocab_items, last_vocab_topic,
                                       last_vocab_difficulty>>
                   ELSE /\ last_vocab_items' = call.value
                        /\ last_vocab_topic' = topic
                        /\ last_vocab_difficulty' = difficulty
                        /\ vocab_history' = merged.history
                        /\ status' = IF merged.raised THEN "exception" ELSE "generated"

\* page_generate_phrasal_verbs, button "generate": lines 373-403
GeneratePhrasal(num_items, difficulty, reply) ==
    LET forbidden_words == forbidden_list(phrasal_history, difficulty)
        call == call_gpt_for_phrasal_verbs(num_items, difficulty, forbidden_words, reply)
        merged == update_history(phrasal_history, difficulty, call.value)
    IN  /\ clicked' = "generate_phrasal"
        /\ UNCHANGED <<api_key, vocab_history, last_vocab_items, last_vocab_topic,
                       last_vocab_difficulty, store, returned, csv_rows>>
        /\ IF key_missing
           THEN /\ status' = "config_error"
                /\ prompt' = NoPrompt
                /\ UNCHANGED <<phrasal_history, last_phrasal_items, last_phrasal_difficulty>>
           ELSE /\ prompt' = call.prompt
                /\ IF call.raised
                   THEN /\ status' = "gpt_error"
                        /\ UNCHANGED <<phrasal_history, last_phrasal_items,
                                       last_phrasal_difficulty>>
                   ELSE /\ last_phrasal_items' = call.value
                        /\ last_phrasal_difficulty' = difficulty
                        /\ phrasal_history' = merged.history
                        /\ status' = IF merged.raised THEN "exception" ELSE "generated"

\* whether the display loop (lines 338-342, 411-415) passes elements 1..n of items
displays(items, n) == \A j \in 1..n : displayable(py_iter(items)[j])

\* page_generate_vocab, button "add to my store" of element i: lines 330-352.
\* The button exists once the loop has displayed elements 1..i; the row is committed
\* before the loop goes on, and a later element it cannot display ends the run.
SaveVocabOne(i) ==
    /\ truthy(last_vocab_items)
    /\ i \in 1..Len(py_iter(last_vocab_items))
    /\ displays(last_vocab_items, i)
    /\ Len(store) < MaxRows
    /\ store' = insert_vocab_items(store, <<py_iter(last_vocab_items)[i]>>, last_vocab_topic,
                                   Tag("daily_vocab", last_vocab_difficulty),
                                   last_vocab_difficulty)
    /\ clicked' = "save_vocab_one"
    /\ status' = IF displays(last_vocab_items, Len(py_iter(last_vocab_items)))
                 THEN "saved" ELSE "exception"
    /\ prompt' = NoPrompt
    /\ UNCHANGED <<api_key, vocab_history, phrasal_history, last_vocab_items, last_vocab_topic,
                   last_vocab_difficulty, last_phrasal_items, last_phrasal_difficulty,
                   returned, csv_rows>>

\* page_generate_vocab, button "save all": lines 330-364. The display loop runs before
\* the insert, and an element it cannot display ends the run before line 357.
SaveVocabAll ==
    /\ truthy(last_vocab_items)
    /\ Len(store) + Len(py_iter(last_vocab_items)) <= MaxRows
    /\ IF displays(last_vocab_items, Len(py_iter(last_vocab_items)))
       THEN /\ store' = insert_vocab_items(store, py_iter(last_vocab_items), last_vocab_topic,
                                           Tag("daily_vocab", last_vocab_difficulty),
                                           last_vocab_difficulty)
            /\ status' = "saved"
       ELSE /\ store' = store
            /\ status' = "exception"
    /\ clicked' = "save_vocab_all"
    /\ prompt' = NoPrompt
    /\ UNCHANGED <<api_key, vocab_history, phrasal_history, last_vocab_items, last_vocab_topic,
                   last_vocab_difficulty, last_phrasal_items, last_phrasal_difficulty,
                   returned, csv_rows>>

\* page_generate_phrasal_verbs, button "add to my store" of element i: lines 405-424
SavePhrasalOne(i) ==
    /\ truthy(last_phrasal_items)
    /\ i \in 1..Len(py_iter(last_phrasal_items))
    /\ displays(last_phrasal_items, i)
    /\ Len(store) < MaxRows
    /\ store' = insert_vocab_items(store, <<py_iter(last_phrasal_items)[i]>>, PHRASAL_TOPIC,
                                   Tag("phrasal", last_phrasal_difficulty),
                                   last_phrasal_difficulty)
    /\ clicked' = "save_phrasal_one"
    /\ status' = IF displays(last_phrasal_items, Len(py_iter(last_phrasal_items)))
                 THEN "saved" ELSE "exception"
    /\ prompt' = NoPrompt
    /\ UNCHANGED <<api_key, vocab_history, phrasal_history, last_vocab_items, last_vocab_topic,
                   last_vocab_difficulty, last_phrasal_items, last_phrasal_difficulty,
                   returned, csv_rows>>

\* page_generate_phrasal_verbs, button "save all": lines 405-435
SavePhrasalAll ==
    /\ truthy(last_phrasal_items)
    /\ Len(store) + Len(py_iter(last_phrasal_items)) <= MaxRows
    /\ IF displays(last_phrasal_items, Len(py_iter(last_phrasal_items)))
       THEN /\ store' = insert_vocab_items(store, py_iter(last_phrasal_items), PHRASAL_TOPIC,
                                           Tag("phrasal", last_phrasal_difficulty),
                                           last_phrasal_difficulty)
            /\ status' = "saved"
       ELSE /\ store' = store
            /\ status' = "exception"
    /\ clicked' = "save_phrasal_all"
    /\ prompt' = NoPrompt
    /\ UNCHANGED <<api_key, vocab_history, phrasal_history, last_vocab_items, last_vocab_topic,
                   last_vocab_difficulty, last_phrasal_items, last_phrasal_difficulty,
                   returned, csv_rows>>

\* page_review_quiz, button "start review": lines 448-472. diff is NoLevel for "all".
\* The rows drawn are displayed and kept nowhere.
Review(num_items, diff) ==
    /\ \E result \in get_random_items(store, num_items, diff) :
          status' = IF result = <<>> THEN "warning_empty" ELSE "reviewed"
    /\ clicked' = "review"
    /\ prompt' = NoPrompt
    /\ UNCHANGED <<api_key, vocab_history, phrasal_history, last_vocab_items, last_vocab_topic,
                   last_vocab_difficulty, last_phrasal_items, last_phrasal_difficulty,
                   store, returned, csv_rows>>

\* page_recent_and_export without a click: lines 478-495
Recent(limit) ==
    /\ status' = IF get_recent_items(store, limit) = <<>> THEN "info_empty" ELSE "listed"
    /\ clicked' = "recent"
    /\ prompt' = NoPrompt
    /\ UNCHANGED <<api_key, vocab_history, phrasal_history, last_vocab_items, last_vocab_topic,
                   last_vocab_difficulty, last_phrasal_items, last_phrasal_difficulty,
                   store, returned, csv_rows>>

\* page_recent_and_export, button "export": lines 478-500
Export(limit) ==
    /\ csv_rows' = export_to_csv(store)
    /\ status' = "exported"
    /\ clicked' = "export"
    /\ prompt' = NoPrompt
    /\ UNCHANGED <<api_key, vocab_history, phrasal_history, last_vocab_items, last_vocab_topic,
                   last_vocab_difficulty, last_phrasal_items, last_phrasal_difficulty,
                   store, returned>>

GenerateVocabStep(topics, levels, replies) ==
    \E topic \in topics, difficulty \in levels, reply \in replies :
        GenerateVocab(topic, MIN_ITEMS, difficulty, reply)
GeneratePhrasalStep(levels, replies) ==
    \E difficulty \in levels, reply \in replies : GeneratePhrasal(MIN_ITEMS, difficulty, reply)
SaveVocabOneStep == \E i \in 1..MaxBatch : SaveVocabOne(i)
SavePhrasalOneStep == \E i \in 1..MaxBatch : SavePhrasalOne(i)
ReviewStep == \E diff \in {NoLevel} \cup Levels : Review(MIN_ITEMS, diff)
RecentStep == Recent(MIN_RECENT)
ExportStep == Export(MIN_RECENT)

\* the whole session: every button of the four pages
Next ==
    \/ GenerateVocabStep(SessionTopics, SessionLevels, SessionReplies)
    \/ GeneratePhrasalStep(SessionLevels, SessionReplies)
    \/ SaveVocabOneStep
    \/ SaveVocabAll
    \/ SavePhrasalOneStep
    \/ SavePhrasalAll
    \/ ReviewStep
    \/ RecentStep
    \/ ExportStep

Spec == Init /\ [][Next]_vars

\* a session that generates on both generation pages, over several topics and levels,
\* and visits the review and recent pages
NextGenerate ==
    \/ GenerateVocabStep(Topics, SessionLevels, GenerateReplies)
    \/ GeneratePhrasalStep(Levels, GenerateReplies)
    \/ ReviewStep
    \/ RecentStep
    \/ ExportStep

SpecGenerate == Init /\ [][NextGenerate]_vars

\* a session that generates on the vocabulary page for one topic, over many replies
NextWords == GenerateVocabStep(SessionTopics, SessionLevels, WordReplies)

SpecWords == Init /\ [][NextWords]_vars

-----------------------------------------------------------------------------
(* Direct calls of the store functions *)

\* the process of a direct call has its key
InitCalls == Init /\ api_key = <<"k">>

\* the arguments explored: three lists of items, difficulty None or an end of the scale
StoreItems == {<<>>, <<ItemA>>, <<ItemB, ItemA>>}
StoreLevels == {NoLevel, MIN_DIFFICULTY, MAX_DIFFICULTY}
Limits == -1..MaxLimit

\* insert_vocab_items(items, topic=None, tag=None, difficulty=difficulty)
InsertCall(items, difficulty) ==
    /\ Len(store) + Len(items) <= MaxStoreRows
    /\ store' = insert_vocab_items(store, items, None, NoTag, difficulty)
    /\ returned' = [call |-> "insert_vocab_items", items |-> items]
    /\ clicked' = "insert_vocab_items"
    /\ status' = IF insert_raises(items) THEN "exception" ELSE "returned"
    /\ UNCHANGED <<api_key, vocab_history, phrasal_history, last_vocab_items, last_vocab_topic,
                   last_vocab_difficulty, last_phrasal_items, last_phrasal_difficulty,
                   csv_rows, prompt>>

\* get_recent_items(limit)
RecentCall(limit) ==
    /\ returned' = [call |-> "get_recent_items", limit |-> limit,
                    value |-> get_recent_items(store, limit)]
    /\ clicked' = "get_recent_items"
    /\ status' = "returned"
    /\ UNCHANGED <<api_key, vocab_history, phrasal_history, last_vocab_items, last_vocab_topic,
                   last_vocab_difficulty, last_phrasal_items, last_phrasal_difficulty,
                   store, csv_rows, prompt>>

\* get_random_items(limit, difficulty)
RandomCall(limit, difficulty) ==
    /\ \E result \in get_random_items(store, limit, difficulty) :
          returned' = [call |-> "get_random_items", limit |-> limit,
                       difficulty |-> difficulty, value |-> result]
    /\ clicked' = "get_random_items"
    /\ status' = "returned"
    /\ UNCHANGED <<api_key, vocab_history, phrasal_history, last_vocab_items, last_vocab_topic,
                   last_vocab_difficulty, last_phrasal_items, last_phrasal_difficulty,
                   store, csv_rows, prompt>>

InsertCallStep == \E items \in StoreItems, difficulty \in StoreLevels : InsertCall(items, difficulty)
RecentCallStep == \E limit \in Limits : RecentCall(limit)
RandomCallStep == \E limit \in Limits, difficulty \in StoreLevels : RandomCall(limit, difficulty)

NextStore ==
    \/ InsertCallStep
    \/ RecentCallStep
    \/ RandomCallStep

SpecStore == InitCalls /\ [][NextStore]_vars

-----------------------------------------------------------------------------
(* Direct calls of the two request functions *)

\* the arguments explored: counts around 0, difficulties around the scale, forbidden lists
Counts == (0 - MaxOff)..MaxOff
Difficulties == (MIN_DIFFICULTY - MaxOff)..(MAX_DIFFICULTY + MaxOff)
ForbiddenLists == {<<>>, <<<<"b">>, <<"a">>>>, <<<<"b">>, <<>>, <<" ", "b">>>>}
CallReplies == {[kind |-> "api_error"], Text(JArray(<<ItemA>>))}

\* call_gpt_for_vocab(topic, num_items, difficulty, forbidden_words)
VocabCall(topic, num_items, difficulty, forbidden_words, reply) ==
    LET call == call_gpt_for_vocab(topic, num_items, difficulty, forbidden_words, reply)
    IN  /\ prompt' = call.prompt
        /\ returned' = [call |-> "call_gpt_for_vocab", value |-> call.value]
        /\ clicked' = "call_gpt_for_vocab"
        /\ status' = IF call.raised THEN "exception" ELSE "returned"
        /\ UNCHANGED <<api_key, vocab_history, phrasal_history, last_vocab_items,
                       last_vocab_topic, last_vocab_difficulty, last_phrasal_items,
                       last_phrasal_difficulty, store, csv_rows>>

\* call_gpt_for_phrasal_verbs(num_items, difficulty, forbidden_words)
PhrasalCall(num_items, difficulty, forbidden_words, reply) ==
    LET call == call_gpt_for_phrasal_verbs(num_items, difficulty, forbidden_words, reply)
    IN  /\ prompt' = call.prompt
        /\ returned' = [call |-> "call_gpt_for_phrasal_verbs", value |-> call.value]
        /\ clicked' = "call_gpt_for_phrasal_verbs"
        /\ status' = IF call.raised THEN "exception" ELSE "returned"
        /\ UNCHANGED <<api_key, vocab_history, phrasal_history, last_vocab_items,
                       last_vocab_topic, last_vocab_difficulty, last_phrasal_items,
                       last_phrasal_difficulty, store, csv_rows>>

VocabCallStep ==
    \E topic \in SessionTopics, num_items \in Counts, difficulty \in Difficulties,
       forbidden_words \in ForbiddenLists, reply \in CallReplies :
        VocabCall(topic, num_items, difficulty, forbidden_words, reply)
PhrasalCallStep ==
    \E num_items \in Counts, difficulty \in Difficulties,
       forbidden_words \in ForbiddenLists, reply \in CallReplies :
        PhrasalCall(num_items, difficulty, forbidden_words, reply)

NextBuilder ==
    \/ VocabCallStep
    \/ PhrasalCallStep

SpecBuilder == InitCalls /\ [][NextBuilder]_vars

-----------------------------------------------------------------------------
(* Claims *)

GenerateClicks == {"generate_vocab", "generate_phrasal"}
SaveClicks == {"save_vocab_one", "save_vocab_all", "save_phrasal_one", "save_phrasal_all"}

IsPrefix(s, t) == Len(s) <= Len(t) /\ SubSeq(t, 1, Len(s)) = s
Min(a, b) == IF a < b THEN a ELSE b

\* the last step was a generation attempt that failed: the call raised (API error, text
\* that is not JSON), or the loop over the parsed value raised
FailedGeneration == clicked \in GenerateClicks /\ status \in {"gpt_error", "exception"}

\* C1: a failed generation attempt leaves every history set and the stored rows exactly
\* as they were before it.
C1_NoPartialMergeOnFailure ==
    [][FailedGeneration' =>
          /\ vocab_history' = vocab_history
          /\ phrasal_history' = phrasal_history
          /\ store' = store]_vars

\* the words of the elements of a batch that are strings
BatchWords(items) ==
    {dict_get(py_iter(items)[i], "word") :
        i \in {j \in 1..Len(py_iter(items)) : dict_get(py_iter(items)[j], "word") # None}}

\* the list read for the context of the last vocabulary batch
LastForbidden == forbidden_list(vocab_history, lower(strip(last_vocab_topic)))

Absorbed == clicked = "generate_vocab" /\ status = "generated"

\* C2 as claimed: after a batch is absorbed, the trimmed lower-cased form of every
\* non-empty word of the batch is in the forbidden list of the context.
C2_EveryNonEmptyWordForbidden ==
    Absorbed =>
        \A w \in BatchWords(last_vocab_items) :
            w # <<>> => lower(strip(w)) \in Range(LastForbidden)

\* every word of the absorbed batch whose trimmed form is not empty is in the list
RoundTrip ==
    Absorbed =>
        \A w \in BatchWords(last_vocab_items) :
            strip(w) # <<>> => lower(strip(w)) \in Range(LastForbidden)

\* a list is strictly ascending and lists exactly the set
SortedListOf(list, S) ==
    /\ Range(list) = S
    /\ \A i, j \in 1..Len(list) : i < j => str_lt(list[i], list[j])

Contexts == {lower(strip(t)) : t \in Topics}

\* C2, amended: after a batch is absorbed, the trimmed lower-cased form of every word of
\* the batch whose trimmed form is not empty is in the forbidden list of the context; the
\* list read for a context is the sorted sequence of its set, and a step that runs no
\* absorb loop leaves the list read for every context as it was.
C2_ForbiddenRoundTrip ==
    /\ []RoundTrip
    /\ [](\A k \in Contexts :
            SortedListOf(forbidden_list(vocab_history, k), history_get(vocab_history, k)))
    /\ [][~(clicked' \in GenerateClicks /\ status' \in {"generated", "exception"}) =>
            \A k \in Contexts :
                forbidden_list(vocab_history', k) = forbidden_list(vocab_history, k)]_vars

\* a batch with a word that needs strip() and lower() was absorbed, and the list of its
\* context holds two words
C2_Witness ==
    /\ Absorbed
    /\ <<"A", " ">> \in BatchWords(last_vocab_items)
    /\ LastForbidden = <<<<"a">>, <<"b">>>>

\* every context of h is a context of h2, with at least the same words
Grows(h, h2) == \A k \in DOMAIN h : k \in DOMAIN h2 /\ h[k] \subseteq h2[k]

ReverseTail(table, k) == [i \in 1..k |-> table[Len(table) - i + 1]]

\* C4: get_recent_items(N) returns the last min(N, total) inserted rows, last first, in
\* strictly descending id order; insertion order is ascending id order.
C4_RecentIsReverseInsertion ==
    /\ \A i, j \in 1..Len(store) : i < j => store[i].id < store[j].id
    /\ (returned.call = "get_recent_items" /\ returned.limit >= 0) =>
          /\ returned.value = ReverseTail(store, Min(returned.limit, Len(store)))
          /\ \A i, j \in 1..Len(returned.value) :
                i < j => returned.value[i].id > returned.value[j].id

\* get_recent_items(2) has returned two of three rows, two of them inserted by one call
C4_Witness ==
    /\ returned.call = "get_recent_items"
    /\ returned.limit = 2
    /\ Len(store) = 3
    /\ Len(returned.value) = 2
    /\ store[2].word = <<"b">>
    /\ store[3].word = <<"A", " ">>

\* the number of stored rows of a difficulty
Population(d) == Cardinality({i \in 1..Len(store) : store[i].difficulty = d})

\* the rows returned are stored rows of the difficulty asked for, none twice
OnlyMatchingOnce ==
    /\ \A i \in 1..Len(returned.value) :
          /\ returned.value[i] \in Range(store)
          /\ returned.value[i].difficulty = returned.difficulty
    /\ \A i, j \in 1..Len(returned.value) :
          returned.value[i] = returned.value[j] => i = j

RandomReturned == returned.call = "get_random_items" /\ returned.difficulty # NoLevel

\* C5 as claimed: for every limit, get_random_items(limit, difficulty=d) returns only
\* stored rows of difficulty d, none twice, and min(limit, number of stored rows of
\* difficulty d) of them.
C5_RandomCountIsMinForEveryLimit ==
    RandomReturned =>
        /\ OnlyMatchingOnce
        /\ Len(returned.value) = Min(returned.limit, Population(returned.difficulty))

\* C5, amended: get_random_items(limit, difficulty=d) returns only stored rows of
\* difficulty d, none twice; for limit >= 0 it returns min(limit, number of stored rows
\* of difficulty d) of them, and for a negative limit all of them.
C5_RandomRespectsFilter ==
    RandomReturned =>
        /\ OnlyMatchingOnce
        /\ returned.limit >= 0 =>
              Len(returned.value) = Min(returned.limit, Population(returned.difficulty))
        /\ returned.limit < 0 =>
              Len(returned.value) = Population(returned.difficulty)

\* get_random_items(1, difficulty=1) has returned one of two matching rows, beside a row
\* of another difficulty
C5_Witness ==
    /\ returned.call = "get_random_items"
    /\ returned.limit = 1
    /\ returned.difficulty = MIN_DIFFICULTY
    /\ Len(returned.value) = 1
    /\ Population(MIN_DIFFICULTY) = 2
    /\ Population(MAX_DIFFICULTY) = 1

\* C6: a generate step leaves the stored rows unchanged, the row count grows only in a
\* save step, and every step keeps the rows that exist, unchanged and in place.
C6_StoreAppendOnly ==
    [][/\ IsPrefix(store, store')
       /\ clicked' \in GenerateClicks => store' = store
       /\ Len(store') > Len(store) => clicked' \in SaveClicks]_vars

\* the table holds a row saved from each generation page, the second one just saved
C6_Witness ==
    /\ Len(store) = 2
    /\ store[1].topic # store[2].topic
    /\ clicked \in SaveClicks
    /\ status = "saved"

\* C7: no instruction is sent for a call with num_items <= 0 or difficulty outside 1..5.
C7_InvalidRequestFailsFast ==
    prompt.mode # "none" =>
        /\ prompt.num_items > 0
        /\ prompt.difficulty \in MIN_DIFFICULTY..MAX_DIFFICULTY

\* a value is an array whose every element is an object that supplies a word
WellFormedBatch(v) ==
    /\ v.type = "array"
    /\ \A i \in 1..Len(v.elems) :
          v.elems[i].type = "object" /\ "word" \in DOMAIN v.elems[i].fields

\* C8: what a generation step hands to the page as the batch of items is an array whose
\* every element is an object that supplies a word.
C8_ValidatorRejectsMalformed ==
    (clicked = "generate_vocab" /\ status \in {"generated", "exception"}) =>
        WellFormedBatch(last_vocab_items)

\* C9: with the key absent or empty, a generation click shows the configuration error,
\* sends no instruction, and the last-batch fields, the histories and the table are as
\* they were.
C9_MissingKeyDetected ==
    [][((api_key = None \/ api_key = <<>>) /\ clicked' \in GenerateClicks) =>
          /\ status' = "config_error"
          /\ prompt' = NoPrompt
          /\ UNCHANGED <<vocab_history, phrasal_history, last_vocab_items, last_vocab_topic,
                         last_vocab_difficulty, last_phrasal_items, last_phrasal_difficulty,
                         store>>]_vars

\* a generation click with an empty key has shown the configuration error
C9_Witness ==
    /\ api_key = <<>>
    /\ clicked = "generate_phrasal"
    /\ status = "config_error"

\* every context but key is the same in h and h2
OthersSame(h, h2, key) ==
    \A k \in (DOMAIN h \cup DOMAIN h2) \ {key} :
        k \in DOMAIN h /\ k \in DOMAIN h2 /\ h[k] = h2[k]

\* C10: a generation step changes the forbidden set of its own context alone (the
\* trimmed lower-cased topic, or the difficulty level), passes to the model only words
\* already held for that context, and keys the topic contexts by the normalized topic.
C10_ContextsIsolated ==
    [][/\ (clicked' = "generate_vocab" /\ prompt'.mode = "vocab") =>
            /\ phrasal_history' = phrasal_history
            /\ OthersSame(vocab_history, vocab_history', lower(strip(prompt'.topic)))
            /\ Range(prompt'.forbidden)
                  \subseteq history_get(vocab_history, lower(strip(prompt'.topic)))
       /\ (clicked' = "generate_phrasal" /\ prompt'.mode = "phrasal") =>
            /\ vocab_history' = vocab_history
            /\ OthersSame(phrasal_history, phrasal_history', prompt'.difficulty)
            /\ Range(prompt'.forbidden)
                  \subseteq history_get(phrasal_history, prompt'.difficulty)
       /\ (clicked' \in GenerateClicks /\ prompt'.mode = "none") =>
            /\ vocab_history' = vocab_history
            /\ phrasal_history' = phrasal_history
       /\ \A k \in DOMAIN vocab_history' : k = lower(strip(k))]_vars

\* a generation for the topic " D" was sent the words held for "d", while another topic
\* and a level hold sets of their own
C10_Witness ==
    /\ clicked = "generate_vocab"
    /\ status = "generated"
    /\ prompt.topic = <<" ", "D">>
    /\ prompt.forbidden = <<<<"a">>, <<"b">>>>
    /\ DOMAIN vocab_history = {<<"d">>, <<"e">>}
    /\ DOMAIN phrasal_history # {}

====
